---- MODULE Spec2Model ----
(***************************************************************************)
(* A model of the React behaviour the repository's notes describe and of   *)
(* the hook code they show, for one function component assembled from the  *)
(* notes' fragments:                                                       *)
(*                                                                         *)
(*   const [count, setCount] = useState(0);                                *)
(*   const [items, setItems] = useState([...]);       // an array          *)
(*   const [query, setQuery] = useState("");                               *)
(*   useEffect(() => { ...runs when 'count' changes... }, [count]);        *)
(*   const doubled  = useMemo(() => count * 2, [count]);                   *)
(*   const filtered = useMemo(() => items.filter(i => i.includes(query)),  *)
(*                            [items, query]);                             *)
(*                                                                         *)
(* The repository holds no Graph, Scheduler, MemoCache or Store.  Where a  *)
(* statement about them has a counterpart in the notes it is read as:      *)
(*   state Node       = a useState cell          write = its setter        *)
(*   computed Node    = a useMemo value          recompute fn = callback   *)
(*   subscriber       = a useEffect callback with the Node in its deps     *)
(*   batch            = one event (handler), with the calls nested in it   *)
(*   flush            = the re-render, commit and effects after the batch  *)
(*   equality mode    = Object.is: value for primitives, reference for     *)
(*                      arrays                                             *)
(*                                                                         *)
(* Beside it, the notes' two hooks that register listeners on window:      *)
(*   useOnlineStatus: useSyncExternalStore(subscribe, getSnapshot), whose  *)
(*     subscribe adds the listener to "online" and "offline" and returns   *)
(*     the function that removes it from both;                             *)
(*   useWindowSize: an effect adds handleResize to "resize" on mount, its  *)
(*     cleanup removes it on unmount.                                      *)
(* A statement about subscribe(n, cb) and the function it returns is read  *)
(* on them: Node = window's status, cb = the listener, a write and its     *)
(* flush = the browser event and its dispatch, dispose = unmount.          *)
(*                                                                         *)
(* And the notes' code that is claimed about directly: a component that    *)
(* calls useFetch(url) and has the setInterval effect of the useEffect     *)
(* notes, the Timer component, and the reducers of the useReducer notes.   *)
(***************************************************************************)
EXTENDS Integers, Sequences, FiniteSets, TLC

\* ---------------------------------------------------------------- bounds
MaxVal == 2
MaxQueue == 2
MaxItems == 2
MaxRef == 2
MaxDepth == 2
MaxClients == 2
MaxUrls == 2
MaxRuns == 3
MaxCalls == 3
MaxClock == 2
MaxOps == 5

\* ------------------------------------------------------- program constants
InitialCount == 0

\* Strings are sequences of characters, so that includes() is computed.
InitialQuery == << >>
InitialItems == << >>
Queries == { << >>, <<"a">>, <<"b">> }
NewItems == { <<"a">>, <<"a", "b">> }
Refs == 0..MaxRef

\* The event types the hooks listen to, the components that call
\* useOnlineStatus (each passes a listener of its own, named by the client),
\* and the listener of useWindowSize.
EventTypes == { "online", "offline", "resize" }
Clients == 1..MaxClients
HandleResize == 0
InitialWidth == 0

\* The urls useFetch is called with, and the effects of its component.
Urls == 1..MaxUrls
Effects == { "fetch", "interval" }

\* The action types dispatched to the reducers: each reducer handles some.
ActionTypes == { "increment", "decrement", "add", "remove", "clear", "reset" }

VARIABLES
  count,        \* committed state of useState(0)
  items,        \* committed state of the array cell: [ref, val]
  query,        \* committed state of useState("")
  queue,        \* updates queued by setter calls, in call order
  pc,           \* "idle" | "event" | "render" | "commit" | "effects"
  depth,        \* nesting depth of the batch scopes of the running event
  hook,         \* next hook the render executes (1..6), 0 outside render
  memoDoubled,  \* useMemo cell: [deps, value]
  memoFiltered, \* useMemo cell: [deps, value]
  effectDeps,   \* deps of the effect's last registration
  effectPending,\* the render found the effect's deps changed
  dom,          \* what the last commit wrote
  \* history, read only by the properties
  pre,          \* the cells' values when the running/last flush started
  runs,         \* invocations in the running/last flush
  prevRuns,     \* invocations in the flush before it
  prevMemo,     \* the useMemo values when the running/last flush started
  seen,         \* the inputs filtered's callback was last invoked with
  effectSaw,    \* the value the effect callback last received
  lastBatch,    \* the queue the running/last flush decision was taken on
  flushes,      \* flush decisions since the running/last event started
  invoked,      \* a callback ran since the running/last event started
  bailed,       \* the last flush decision skipped the re-render
  deepest,      \* the deepest nesting the running/last event reached (0: none)
  \* window and the hooks that listen to it
  listeners,    \* window's listener list of each event type
  online,       \* navigator.onLine
  innerWidth,   \* window.innerWidth
  sub,          \* per client of useOnlineStatus: "none" | "on" | "off"
  snapshot,     \* per client: the getSnapshot() result it last rendered
  phase,        \* useWindowSize's component: "new" | "rendered" | "mounted" | "unmounted"
  size,         \* its useState(window.innerWidth) cell
  notified,     \* the listeners the dispatch of this step invoked
  \* the component that calls useFetch(url)
  url,          \* the url it was last rendered with
  data,         \* useState(null): << >> is null, else the stored json
  loading,      \* useState(true)
  fpc,          \* "new" | "effect" | "effect2" | "idle" | "cleanup" |
                \* "unmounting" | "unmounting2" | "unmounted"
  fetches,      \* one record per run of the fetch effect: [url, ignore, inflight]
  interval,     \* the setInterval effect's timer: "none" | "running" | "cleared"
  elog,         \* per effect, its runs and cleanups in order (history)
  setLate,      \* a response called setData after the url it was fetched
                \* for was replaced or the component unmounted (history)
  setIgnored,   \* a response called setData after its run's cleanup (history)
  dropped,      \* responses that arrived and did not call setData (history)
  \* the reducers and the objects they are given and return
  cHeap,        \* the counter state objects ever created: ref -> { count }
  cState,       \* the ref useReducer(reducer, initialState) holds
  tHeap,        \* the todo state objects ever created: ref -> { todos: array ref }
  tArrs,        \* the todos arrays ever created: ref -> << { id, text }, ... >>
  tState,       \* the ref useReducer(todoReducer, todoInitial) holds
  now,          \* Date.now()
  rLast,        \* the last dispatch: [reducer, type] (history)
  rCalls,       \* the dispatches so far (history)
  \* the Timer component
  intervalRef,  \* intervalRef.current: 0 is null, else an interval id
  active,       \* the ids of the intervals that are running
  nextId,       \* the id the next setInterval returns
  lastTick,     \* the interval whose callback ran last (0: none)
  ops           \* the start and stop calls so far, in order (history)

\* The variables of the component of the header.
component == << count, items, query, queue, pc, depth, hook, memoDoubled,
                memoFiltered, effectDeps, effectPending, dom, pre, runs,
                prevRuns, prevMemo, seen, effectSaw, lastBatch, flushes,
                invoked, bailed, deepest >>

\* The variables of window and of the hooks that listen to it.
ext == << listeners, online, innerWidth, sub, snapshot, phase, size,
          notified >>

\* The variables of the component that calls useFetch.
fx == << url, data, loading, fpc, fetches, interval, elog, setLate,
         setIgnored, dropped >>

\* The variables of the reducers.
rd == << cHeap, cState, tHeap, tArrs, tState, now, rLast, rCalls >>

\* The variables of Timer.
tm == << intervalRef, active, nextId, lastTick, ops >>

vars == << component, ext, fx, rd, tm >>

hist == << pre, runs, prevRuns, prevMemo, seen, effectSaw, lastBatch,
           flushes, invoked, bailed, deepest >>

\* ------------------------------------------------------------ pure helpers

\* item.includes(query): query occurs in item as a substring.
Includes(item, q) ==
  \E i \in 0..(Len(item) - Len(q)) : SubSeq(item, i + 1, i + Len(q)) = q

\* items.filter(item => item.includes(query))
RECURSIVE Filter(_, _)
Filter(list, q) ==
  IF list = << >> THEN << >>
  ELSE IF Includes(Head(list), q)
       THEN << Head(list) >> \o Filter(Tail(list), q)
       ELSE Filter(Tail(list), q)

\* () => value * 2
Double(v) == v * 2

\* Object.is on a primitive: by value.
SameValue(a, b) == a = b

\* Object.is on an array: the reference must be identical.
SameRef(a, b) == a.ref = b.ref

\* One queued update applied to the previous state: a direct value replaces
\* it, a functional updater (prev => prev + 1) receives it.
ApplyUpdate_Stale(u, prev) == IF u.kind = "fn" THEN count + u.v ELSE u.v

ApplyUpdate(u, prev) == IF u.kind = "fn" THEN prev + u.v ELSE u.v

\* The queued updates of one cell applied in call order.
RECURSIVE Reduce(_, _, _)
Reduce(cell, q, base) ==
  IF q = << >> THEN base
  ELSE IF Head(q).cell = cell
       THEN Reduce(cell, Tail(q), ApplyUpdate(Head(q), base))
       ELSE Reduce(cell, Tail(q), base)

\* The queue, were a cell's updates left in it after they were applied.
Without_Keeps(cell, q) == q

\* The queue without one cell's updates.
RECURSIVE Without(_, _)
Without(cell, q) ==
  IF q = << >> THEN << >>
  ELSE IF Head(q).cell = cell THEN Without(cell, Tail(q))
       ELSE << Head(q) >> \o Without(cell, Tail(q))

\* "React compares old vs new": does queue q change any cell?
StateChanges_Always(q) == TRUE

StateChanges(q) ==
  \/ ~SameValue(Reduce("count", q, count), count)
  \/ ~SameRef(Reduce("items", q, items), items)
  \/ ~SameValue(Reduce("query", q, query), query)

\* References some live value holds; a new array gets one of the others.
UsedRefs ==
  { items.ref, memoFiltered.deps[1].ref, pre.items.ref, seen[1].ref }
    \cup { queue[i].v.ref : i \in { j \in 1..Len(queue) : queue[j].cell = "items" } }

FreshRef == CHOOSE r \in Refs \ UsedRefs : TRUE

\* The value the queued updates leave in count (a cap for the model's counter).
PendingCount == Reduce("count", queue, count)

Zero == [render |-> 0, doubled |-> 0, filtered |-> 0, effect |-> 0]

\* ------------------------------------------------------------------- Init
Init ==
  /\ count = InitialCount
  /\ items = [ref |-> 0, val |-> InitialItems]
  /\ query = InitialQuery
  /\ queue = << >>
  /\ pc = "idle"
  /\ depth = 0
  /\ hook = 0
  /\ memoDoubled = [deps |-> << count >>, value |-> Double(count)]
  /\ memoFiltered = [deps |-> << items, query >>, value |-> Filter(items.val, query)]
  /\ effectDeps = << count >>
  /\ effectPending = FALSE
  /\ dom = [count |-> count, doubled |-> Double(count),
            filtered |-> Filter(items.val, query)]
  /\ pre = [count |-> count, items |-> items, query |-> query]
  /\ runs = [render |-> 1, doubled |-> 1, filtered |-> 1, effect |-> 1]
  /\ prevRuns = [render |-> 0, doubled |-> 0, filtered |-> 0, effect |-> 0]
  /\ prevMemo = [doubled |-> Double(count), filtered |-> Filter(items.val, query)]
  /\ seen = << items, query >>
  /\ effectSaw = count
  /\ lastBatch = << >>
  /\ flushes = 0
  /\ invoked = FALSE
  /\ bailed = FALSE
  /\ deepest = 0
  /\ listeners = [t \in EventTypes |-> {}]
  /\ online = TRUE
  /\ innerWidth = InitialWidth
  /\ sub = [c \in Clients |-> "none"]
  /\ snapshot = [c \in Clients |-> << >>]
  /\ phase = "new"
  /\ size = InitialWidth
  /\ notified = {}
  /\ url = 1
  /\ data = << >>
  /\ loading = FALSE
  /\ fpc = "new"
  /\ fetches = << >>
  /\ interval = "none"
  /\ elog = [e \in Effects |-> << >>]
  /\ setLate = FALSE
  /\ setIgnored = FALSE
  /\ dropped = 0
  /\ cHeap = << [count |-> 0] >>
  /\ cState = 1
  /\ tHeap = << [todos |-> 1] >>
  /\ tArrs = << << >> >>
  /\ tState = 1
  /\ now = 1
  /\ rLast = [reducer |-> "none", type |-> "none"]
  /\ rCalls = 0
  /\ intervalRef = 0
  /\ active = {}
  /\ nextId = 1
  /\ lastTick = 0
  /\ ops = << >>

\* ------------------------------------------------------------ the batch

\* A batch scope ends the batch (and the flush follows) when it is the
\* outermost one: the update is deferred until the current event finishes.
FlushesAt_Early(d) == TRUE

FlushesAt(d) == d = 1

\* Where control returns when a flush is over.
Resume(d) == IF d > 0 THEN "event" ELSE "idle"

\* The history is kept for the flush that follows an event and dropped when
\* the next event starts.
ClearHistory ==
  /\ pre' = [count |-> count, items |-> items, query |-> query]
  /\ prevMemo' = [doubled |-> memoDoubled.value, filtered |-> memoFiltered.value]
  /\ seen' = << items, query >>
  /\ effectSaw' = count
  /\ lastBatch' = << >>
  /\ invoked' = FALSE
  /\ bailed' = FALSE

\* An event handler starts: everything it sets is batched.
EventStart ==
  /\ pc = "idle"
  /\ pc' = "event"
  /\ depth' = 1
  /\ flushes' = 0
  /\ deepest' = 1
  /\ ClearHistory
  /\ UNCHANGED << count, items, query, queue, hook, memoDoubled, memoFiltered,
                  effectDeps, effectPending, dom, runs, prevRuns >>
  /\ UNCHANGED << ext, fx, rd, tm >>

\* A call nested in the handler opens a batch scope of its own.
EnterBatch ==
  /\ pc = "event"
  /\ depth < MaxDepth
  /\ depth' = depth + 1
  /\ deepest' = IF depth + 1 > deepest THEN depth + 1 ELSE deepest
  /\ UNCHANGED << count, items, query, queue, pc, hook, memoDoubled,
                  memoFiltered, effectDeps, effectPending, dom >>
  /\ UNCHANGED << pre, runs, prevRuns, prevMemo, seen, effectSaw, lastBatch,
                  flushes, invoked, bailed >>
  /\ UNCHANGED << ext, fx, rd, tm >>

\* A setter call: the update is queued, the state is not touched.
Enqueue(u) ==
  /\ pc = "event"
  /\ Len(queue) < MaxQueue
  /\ queue' = Append(queue, u)
  /\ UNCHANGED << count, items, query, pc, depth, hook, memoDoubled,
                  memoFiltered, effectDeps, effectPending, dom >>
  /\ UNCHANGED hist
  /\ UNCHANGED << ext, fx, rd, tm >>

\* setCount(5)
SetCountValue(v) == [cell |-> "count", kind |-> "value", v |-> v]

\* setCount(count + 1): count is the value of the last render
SetCountStale == [cell |-> "count", kind |-> "value", v |-> count + 1]

\* setCount(prev => prev + 1)
SetCountFn == [cell |-> "count", kind |-> "fn", v |-> 1]

\* setQuery(e.target.value)
SetQuery(q) == [cell |-> "query", kind |-> "value", v |-> q]

\* setItems([...items, newItem]): a new array
SetItemsNew(n) ==
  [cell |-> "items", kind |-> "value",
   v |-> [ref |-> FreshRef, val |-> Append(items.val, n)]]

\* setItems(items): the same array
SetItemsSame == [cell |-> "items", kind |-> "value", v |-> items]

CallSetCountValue == \E v \in 0..MaxVal : Enqueue(SetCountValue(v))

CallSetCountStale == count + 1 <= MaxVal /\ Enqueue(SetCountStale)

CallSetCountFn == PendingCount + 1 <= MaxVal /\ Enqueue(SetCountFn)

CallSetQuery == \E q \in Queries : Enqueue(SetQuery(q))

CallSetItemsNew ==
  /\ Len(items.val) < MaxItems
  /\ Refs \ UsedRefs # {}
  /\ \E n \in NewItems : Enqueue(SetItemsNew(n))

CallSetItemsSame == Enqueue(SetItemsSame)

\* ------------------------------------------------------------ the flush

\* The flush decision on queue q, taken with d batch scopes still open and f
\* flush decisions before it in this event (start: the batch began with this
\* very call): React compares old vs new and re-renders only if a cell's
\* value is different.
Decide(q, d, f, start) ==
  /\ depth' = d
  /\ lastBatch' = q
  /\ flushes' = IF q = << >> THEN f ELSE f + 1
  /\ bailed' = (q # << >> /\ ~StateChanges(q))
  /\ IF q # << >> /\ StateChanges(q)
     THEN /\ pc' = "render"
          /\ hook' = 1
          /\ queue' = q
          /\ prevRuns' = runs
          /\ runs' = [Zero EXCEPT !.render = 1]
          /\ invoked' = TRUE
     ELSE /\ pc' = Resume(d)
          /\ queue' = << >>
          /\ invoked' = IF start THEN FALSE ELSE invoked
          /\ UNCHANGED << hook, runs, prevRuns >>
  /\ pre' = [count |-> count, items |-> items, query |-> query]
  /\ prevMemo' = [doubled |-> memoDoubled.value, filtered |-> memoFiltered.value]
  /\ deepest' = IF start THEN 0 ELSE deepest
  /\ seen' = IF start THEN << items, query >> ELSE seen
  /\ effectSaw' = IF start THEN count ELSE effectSaw
  /\ UNCHANGED << count, items, query, memoDoubled, memoFiltered, effectDeps,
                  effectPending, dom >>
  /\ UNCHANGED << ext, fx, rd, tm >>

\* A batch scope returns; the outermost one ends the event.
BatchEnd ==
  /\ pc = "event"
  /\ IF FlushesAt(depth)
     THEN Decide(queue, depth - 1, flushes, FALSE)
     ELSE /\ depth' = depth - 1
          /\ UNCHANGED << count, items, query, queue, pc, hook, memoDoubled,
                          memoFiltered, effectDeps, effectPending, dom >>
          /\ UNCHANGED hist
          /\ UNCHANGED << ext, fx, rd, tm >>

\* A setter call outside every batch (before React 18: in a timeout or a
\* promise): a batch of one, flushed at once.
Unbatched(u) ==
  /\ pc = "idle"
  /\ Decide(<< u >>, 0, 0, TRUE)

WriteUnbatched ==
  \/ \E v \in 0..MaxVal : Unbatched(SetCountValue(v))
  \/ count + 1 <= MaxVal /\ Unbatched(SetCountFn)
  \/ \E q \in Queries : Unbatched(SetQuery(q))
  \/ /\ Len(items.val) < MaxItems
     /\ Refs \ UsedRefs # {}
     /\ \E n \in NewItems : Unbatched(SetItemsNew(n))
  \/ Unbatched(SetItemsSame)

\* ------------------------------------------------------------ the render
\* The component function runs from top to bottom, one hook at a time.

\* const [count, setCount] = useState(0): the queued updates are applied.
RenderUseStateCount ==
  /\ pc = "render" /\ hook = 1
  /\ count' = Reduce("count", queue, count)
  /\ queue' = Without("count", queue)
  /\ hook' = 2
  /\ UNCHANGED << items, query, pc, depth, memoDoubled, memoFiltered,
                  effectDeps, effectPending, dom >>
  /\ UNCHANGED hist
  /\ UNCHANGED << ext, fx, rd, tm >>

\* const [items, setItems] = useState(...)
RenderUseStateItems ==
  /\ pc = "render" /\ hook = 2
  /\ items' = Reduce("items", queue, items)
  /\ queue' = Without("items", queue)
  /\ hook' = 3
  /\ UNCHANGED << count, query, pc, depth, memoDoubled, memoFiltered,
                  effectDeps, effectPending, dom >>
  /\ UNCHANGED hist
  /\ UNCHANGED << ext, fx, rd, tm >>

\* const [query, setQuery] = useState("")
RenderUseStateQuery ==
  /\ pc = "render" /\ hook = 3
  /\ query' = Reduce("query", queue, query)
  /\ queue' = Without("query", queue)
  /\ hook' = 4
  /\ UNCHANGED << count, items, pc, depth, memoDoubled, memoFiltered,
                  effectDeps, effectPending, dom >>
  /\ UNCHANGED hist
  /\ UNCHANGED << ext, fx, rd, tm >>

\* With dependencies: the effect runs whenever a dependency changed.
EffectDepsChanged_Always == TRUE

EffectDepsChanged == ~SameValue(effectDeps[1], count)

\* useEffect(() => {...}, [count]): registered in the render, run later.
RenderUseEffect ==
  /\ pc = "render" /\ hook = 4
  /\ effectPending' = EffectDepsChanged
  /\ effectDeps' = << count >>
  /\ hook' = 5
  /\ UNCHANGED << count, items, query, queue, pc, depth, memoDoubled,
                  memoFiltered, dom >>
  /\ UNCHANGED hist
  /\ UNCHANGED << ext, fx, rd, tm >>

\* useMemo runs the function only when a dependency changed.
DoubledDepsChanged_Always == TRUE

DoubledDepsChanged_Never == FALSE

DoubledDepsChanged == ~SameValue(memoDoubled.deps[1], count)

\* const doubled = useMemo(() => value * 2, [value])
RenderUseMemoDoubled ==
  /\ pc = "render" /\ hook = 5
  /\ IF DoubledDepsChanged
     THEN /\ memoDoubled' = [deps |-> << count >>, value |-> Double(count)]
          /\ runs' = [runs EXCEPT !.doubled = @ + 1]
     ELSE UNCHANGED << memoDoubled, runs >>
  /\ hook' = 6
  /\ UNCHANGED << count, items, query, queue, pc, depth, memoFiltered,
                  effectDeps, effectPending, dom, pre, prevRuns, prevMemo,
                  seen, effectSaw, lastBatch, flushes, invoked, bailed,
                  deepest >>
  /\ UNCHANGED << ext, fx, rd, tm >>

FilteredDepsChanged ==
  \/ ~SameRef(memoFiltered.deps[1], items)
  \/ ~SameValue(memoFiltered.deps[2], query)

\* What the callback closes over: this render's items and query.
FilteredInputs_Stale == << items, pre.query >>

FilteredInputs == << items, query >>

\* const filtered = useMemo(() => items.filter(item => item.includes(query)),
\*                          [items, query]); the render returns after it.
RenderUseMemoFiltered ==
  /\ pc = "render" /\ hook = 6
  /\ IF FilteredDepsChanged
     THEN /\ memoFiltered' =
               [deps |-> << items, query >>,
                value |-> Filter(FilteredInputs[1].val, FilteredInputs[2])]
          /\ seen' = FilteredInputs
          /\ runs' = [runs EXCEPT !.filtered = @ + 1]
     ELSE UNCHANGED << memoFiltered, seen, runs >>
  /\ hook' = 0
  /\ pc' = "commit"
  /\ UNCHANGED << count, items, query, queue, depth, memoDoubled, effectDeps,
                  effectPending, dom, pre, prevRuns, prevMemo, effectSaw,
                  lastBatch, flushes, invoked, bailed, deepest >>
  /\ UNCHANGED << ext, fx, rd, tm >>

\* ------------------------------------------------- the commit and after

\* The commit phase writes the DOM; the browser paints.
Commit ==
  /\ pc = "commit"
  /\ dom' = [count |-> count, doubled |-> memoDoubled.value,
             filtered |-> memoFiltered.value]
  /\ pc' = "effects"
  /\ UNCHANGED << count, items, query, queue, depth, hook, memoDoubled,
                  memoFiltered, effectDeps, effectPending >>
  /\ UNCHANGED hist
  /\ UNCHANGED << ext, fx, rd, tm >>

\* useEffect callbacks run after render, commit and paint.
CanRunEffects_Early == pc \in { "render", "effects" }

CanRunEffects == pc = "effects"

\* The effect callback runs, with the count of the render that registered it.
RunEffect ==
  /\ CanRunEffects
  /\ effectPending
  /\ effectPending' = FALSE
  /\ effectSaw' = count
  /\ runs' = [runs EXCEPT !.effect = @ + 1]
  /\ UNCHANGED << count, items, query, queue, pc, depth, hook, memoDoubled,
                  memoFiltered, effectDeps, dom, pre, prevRuns, prevMemo,
                  seen, lastBatch, flushes, invoked, bailed, deepest >>
  /\ UNCHANGED << ext, fx, rd, tm >>

\* No effect is left to run: the flush is over.
FlushEnd ==
  /\ pc = "effects"
  /\ ~effectPending
  /\ pc' = Resume(depth)
  /\ UNCHANGED << count, items, query, queue, depth, hook, memoDoubled,
                  memoFiltered, effectDeps, effectPending, dom >>
  /\ UNCHANGED hist
  /\ UNCHANGED << ext, fx, rd, tm >>

\* ---------------------------------------------------- the specification
Next ==
  \/ EventStart
  \/ EnterBatch
  \/ CallSetCountValue
  \/ CallSetCountStale
  \/ CallSetCountFn
  \/ CallSetQuery
  \/ CallSetItemsNew
  \/ CallSetItemsSame
  \/ BatchEnd
  \/ WriteUnbatched
  \/ RenderUseStateCount
  \/ RenderUseStateItems
  \/ RenderUseStateQuery
  \/ RenderUseEffect
  \/ RenderUseMemoDoubled
  \/ RenderUseMemoFiltered
  \/ Commit
  \/ RunEffect
  \/ FlushEnd

Spec == Init /\ [][Next]_vars

\* ------------------------------------------- window and its listeners

\* window.addEventListener(type, l): a listener is in the list once.
AddEventListener(ls, type, l) == [ls EXCEPT ![type] = @ \cup { l }]

\* window.removeEventListener(type, l)
RemoveEventListener(ls, type, l) == [ls EXCEPT ![type] = @ \ { l }]

\* The subscribe function of useOnlineStatus: the body.
Subscribed(ls, l) ==
  AddEventListener(AddEventListener(ls, "online", l), "offline", l)

\* The function subscribe returns.
Unsubscribed_OnlineOnly(ls, l) == RemoveEventListener(ls, "online", l)

Unsubscribed(ls, l) ==
  RemoveEventListener(RemoveEventListener(ls, "online", l), "offline", l)

\* () => navigator.onLine
GetSnapshot == online

\* A component that calls useOnlineStatus mounts: it renders the snapshot
\* and React calls subscribe with the component's listener.
Subscribe(c) ==
  /\ sub[c] = "none"
  /\ snapshot' = [snapshot EXCEPT ![c] = << GetSnapshot >>]
  /\ listeners' = Subscribed(listeners, c)
  /\ sub' = [sub EXCEPT ![c] = "on"]
  /\ notified' = {}
  /\ UNCHANGED << online, innerWidth, phase, size >>
  /\ UNCHANGED << component, fx, rd, tm >>

\* The function subscribe returned is called (the component unmounts).
Unsubscribe(c) ==
  /\ sub[c] = "on"
  /\ listeners' = Unsubscribed(listeners, c)
  /\ sub' = [sub EXCEPT ![c] = "off"]
  /\ notified' = {}
  /\ UNCHANGED << online, innerWidth, snapshot, phase, size >>
  /\ UNCHANGED << component, fx, rd, tm >>

\* The browser goes offline or online and dispatches the event: every
\* listener in the list of its type is invoked, and the component of an
\* invoked listener renders the new snapshot.
StatusChange ==
  /\ online' = ~online
  /\ LET type == IF online' THEN "online" ELSE "offline" IN
       /\ notified' = listeners[type]
       /\ snapshot' = [c \in Clients |->
                         IF c \in listeners[type] THEN << online' >>
                         ELSE snapshot[c]]
  /\ UNCHANGED << listeners, innerWidth, sub, phase, size >>
  /\ UNCHANGED << component, fx, rd, tm >>

\* The component that calls useWindowSize renders for the first time:
\* useState(window.innerWidth).
MountWindowSize ==
  /\ phase = "new"
  /\ size' = innerWidth
  /\ phase' = "rendered"
  /\ notified' = {}
  /\ UNCHANGED << listeners, online, innerWidth, sub, snapshot >>
  /\ UNCHANGED << component, fx, rd, tm >>

\* Its effect (deps []) runs after the first render.
WindowSizeEffect ==
  /\ phase = "rendered"
  /\ listeners' = AddEventListener(listeners, "resize", HandleResize)
  /\ phase' = "mounted"
  /\ notified' = {}
  /\ UNCHANGED << online, innerWidth, sub, snapshot, size >>
  /\ UNCHANGED << component, fx, rd, tm >>

\* The window is resized and dispatches "resize": handleResize, if it is
\* in the list, calls setSize(window.innerWidth).
Resize ==
  /\ \E w \in (0..MaxVal) \ { innerWidth } :
       /\ innerWidth' = w
       /\ size' = IF HandleResize \in listeners["resize"] THEN w ELSE size
  /\ notified' = listeners["resize"]
  /\ UNCHANGED << listeners, online, sub, snapshot, phase >>
  /\ UNCHANGED << component, fx, rd, tm >>

\* The component unmounts: the effect's cleanup runs.
UnmountWindowSize ==
  /\ phase = "mounted"
  /\ listeners' = RemoveEventListener(listeners, "resize", HandleResize)
  /\ phase' = "unmounted"
  /\ notified' = {}
  /\ UNCHANGED << online, innerWidth, sub, snapshot, size >>
  /\ UNCHANGED << component, fx, rd, tm >>

NextListeners ==
  \/ \E c \in Clients : Subscribe(c)
  \/ \E c \in Clients : Unsubscribe(c)
  \/ StatusChange
  \/ MountWindowSize
  \/ WindowSizeEffect
  \/ Resize
  \/ UnmountWindowSize

SpecListeners == Init /\ [][NextListeners]_vars

\* ------------------------------------------------- useFetch(url)
\* A component calls useFetch(url) with the url its parent passes, and has
\* the setInterval effect (deps []) of the useEffect notes after it.

\* res.json() of the response to fetch(u): what the server holds for u.
Json(u) == << u >>

\* let ignore = false ... fetch(url): a run of the effect, its fetch in flight.
NewFetch(u) == [url |-> u, ignore |-> FALSE, inflight |-> TRUE]

\* The effect's cleanup: () => { ignore = true }, on the last run's closure.
CleanedUp(fs) == [fs EXCEPT ![Len(fs)].ignore = TRUE]

\* if (!ignore) ...
Ignored_Never(f) == FALSE

Ignored(f) == f.ignore

\* Does the .then callback touch loading?  It does not: no setLoading(false).
LoadingAfterResponse_Cleared(l) == FALSE

LoadingAfterResponse(l) == l

\* After a commit, useEffect work is scheduled to run after paint: the
\* cleanup of the previous run first, then the effect if the component
\* stays.
AfterCommit_NoCleanup(unmount) == IF unmount THEN "unmounting" ELSE "effect"

AfterCommit(unmount) == IF unmount THEN "unmounting" ELSE "cleanup"

\* The first render: useState(null), useState(true).
MountFetch ==
  /\ fpc = "new"
  /\ \E u \in Urls : url' = u
  /\ data' = << >>
  /\ loading' = TRUE
  /\ fpc' = "effect"
  /\ UNCHANGED << fetches, interval, elog, setLate, setIgnored, dropped >>
  /\ UNCHANGED << component, ext, rd, tm >>

\* The parent passes another url: the render finds deps [url] changed.
ChangeUrl ==
  /\ fpc = "idle"
  /\ Len(fetches) < MaxRuns
  /\ \E u \in Urls \ { url } : url' = u
  /\ fpc' = AfterCommit(FALSE)
  /\ UNCHANGED << data, loading, fetches, interval, elog, setLate,
                  setIgnored, dropped >>
  /\ UNCHANGED << component, ext, rd, tm >>

\* The component is removed from the tree.
UnmountFetch ==
  /\ fpc = "idle"
  /\ fpc' = AfterCommit(TRUE)
  /\ UNCHANGED << url, data, loading, fetches, interval, elog, setLate,
                  setIgnored, dropped >>
  /\ UNCHANGED << component, ext, rd, tm >>

\* The fetch effect's previous cleanup runs: before the next run, or on
\* unmount.
CleanupFetch ==
  /\ fpc \in { "cleanup", "unmounting" }
  /\ fetches' = CleanedUp(fetches)
  /\ elog' = [elog EXCEPT !["fetch"] = Append(@, "cleanup")]
  /\ fpc' = IF fpc = "cleanup" THEN "effect" ELSE "unmounting2"
  /\ UNCHANGED << url, data, loading, interval, setLate, setIgnored, dropped >>
  /\ UNCHANGED << component, ext, rd, tm >>

\* The fetch effect runs: ignore = false, setLoading(true), fetch(url).
\* After the first render the interval effect follows it.
RunFetchEffect ==
  /\ fpc = "effect"
  /\ fetches' = Append(fetches, NewFetch(url))
  /\ loading' = TRUE
  /\ elog' = [elog EXCEPT !["fetch"] = Append(@, "run")]
  /\ fpc' = IF interval = "none" THEN "effect2" ELSE "idle"
  /\ UNCHANGED << url, data, interval, setLate, setIgnored, dropped >>
  /\ UNCHANGED << component, ext, rd, tm >>

\* const id = setInterval(...): the effect with deps [] runs once.
RunIntervalEffect ==
  /\ fpc = "effect2"
  /\ interval' = "running"
  /\ elog' = [elog EXCEPT !["interval"] = Append(@, "run")]
  /\ fpc' = "idle"
  /\ UNCHANGED << url, data, loading, fetches, setLate, setIgnored, dropped >>
  /\ UNCHANGED << component, ext, rd, tm >>

\* return () => clearInterval(id): on unmount.
CleanupInterval ==
  /\ fpc = "unmounting2"
  /\ interval' = "cleared"
  /\ elog' = [elog EXCEPT !["interval"] = Append(@, "cleanup")]
  /\ fpc' = "unmounted"
  /\ UNCHANGED << url, data, loading, fetches, setLate, setIgnored, dropped >>
  /\ UNCHANGED << component, ext, rd, tm >>

\* The response of run i's fetch arrives, in any order with the others and
\* at any moment no React work is running (the effects of a commit run
\* later, after paint): .then(json => { if (!ignore) setData(json) }).
\* What a setData call does once the component is removed is not in the
\* notes: either outcome.
Response(i) ==
  /\ fpc \in { "idle", "cleanup", "unmounting", "unmounted" }
  /\ fetches[i].inflight
  /\ fetches' = [fetches EXCEPT ![i].inflight = FALSE]
  /\ loading' = LoadingAfterResponse(loading)
  /\ IF Ignored(fetches[i])
     THEN /\ dropped' = dropped + 1
          /\ UNCHANGED << data, setLate, setIgnored >>
     ELSE /\ dropped' = dropped
          /\ \/ data' = Json(fetches[i].url)
             \/ fpc \in { "unmounting", "unmounted" } /\ data' = data
          /\ setLate' = (setLate \/ i < Len(fetches) \/ fpc # "idle")
          /\ setIgnored' = (setIgnored \/ fetches[i].ignore)
  /\ UNCHANGED << url, fpc, interval, elog >>
  /\ UNCHANGED << component, ext, rd, tm >>

NextFetch ==
  \/ MountFetch
  \/ ChangeUrl
  \/ UnmountFetch
  \/ CleanupFetch
  \/ RunFetchEffect
  \/ RunIntervalEffect
  \/ CleanupInterval
  \/ \E i \in 1..Len(fetches) : Response(i)

SpecFetch == Init /\ [][NextFetch]_vars

\* ------------------------------------------------------ the reducers
\* Objects and arrays live in heaps (a sequence: the ref is the index), so
\* that "the same object" and "a new object" differ and a mutation shows.

\* The ❌ WRONG reducer of the notes: state.count++; return state.
reducer_Mutating(h, r, a) ==
  CASE a.type = "increment" ->
         [heap |-> [h EXCEPT ![r].count = @ + 1], ret |-> r]
    [] a.type = "decrement" ->
         [heap |-> [h EXCEPT ![r].count = @ - 1], ret |-> r]
    [] OTHER -> [heap |-> h, ret |-> r]

\* function reducer(state, action): the heap after the call and the ref
\* returned.
reducer(h, r, a) ==
  CASE a.type = "increment" ->
         [heap |-> Append(h, [count |-> h[r].count + 1]), ret |-> Len(h) + 1]
    [] a.type = "decrement" ->
         [heap |-> Append(h, [count |-> h[r].count - 1]), ret |-> Len(h) + 1]
    [] OTHER -> [heap |-> h, ret |-> r]

\* state.todos.filter(t => t.id !== action.id)
RECURSIVE WithoutId(_, _)
WithoutId(todos, id) ==
  IF todos = << >> THEN << >>
  ELSE IF Head(todos).id # id
       THEN << Head(todos) >> \o WithoutId(Tail(todos), id)
       ELSE WithoutId(Tail(todos), id)

\* { ...state, todos: <a new array> }
NewTodoState(objs, arrs, todos) ==
  [objs |-> Append(objs, [todos |-> Len(arrs) + 1]),
   arrs |-> Append(arrs, todos),
   ret |-> Len(objs) + 1]

\* function todoReducer(state, action)
todoReducer(objs, arrs, r, a) ==
  CASE a.type = "add" ->
         NewTodoState(objs, arrs,
                      Append(arrs[objs[r].todos], [id |-> a.now, text |-> a.text]))
    [] a.type = "remove" ->
         NewTodoState(objs, arrs, WithoutId(arrs[objs[r].todos], a.id))
    [] a.type = "clear" -> NewTodoState(objs, arrs, << >>)
    [] OTHER -> [objs |-> objs, arrs |-> arrs, ret |-> r]

\* dispatch({ type }) to useReducer(reducer, initialState)
DispatchCounter ==
  /\ rCalls < MaxCalls
  /\ \E t \in ActionTypes :
       LET out == reducer(cHeap, cState, [type |-> t]) IN
         /\ cHeap' = out.heap
         /\ cState' = out.ret
         /\ rLast' = [reducer |-> "reducer", type |-> t]
  /\ rCalls' = rCalls + 1
  /\ UNCHANGED << tHeap, tArrs, tState, now >>
  /\ UNCHANGED << component, ext, fx, tm >>

\* dispatch({ type, text, id }) to useReducer(todoReducer, todoInitial)
DispatchTodo ==
  /\ rCalls < MaxCalls
  /\ \E t \in ActionTypes, id \in 1..MaxClock :
       LET out == todoReducer(tHeap, tArrs, tState,
                              [type |-> t, text |-> "New Task", id |-> id,
                               now |-> now]) IN
         /\ tHeap' = out.objs
         /\ tArrs' = out.arrs
         /\ tState' = out.ret
         /\ rLast' = [reducer |-> "todoReducer", type |-> t]
  /\ rCalls' = rCalls + 1
  /\ UNCHANGED << cHeap, cState, now >>
  /\ UNCHANGED << component, ext, fx, tm >>

\* Time passes: Date.now() grows.
ClockTick ==
  /\ now < MaxClock
  /\ now' = now + 1
  /\ UNCHANGED << cHeap, cState, tHeap, tArrs, tState, rLast, rCalls >>
  /\ UNCHANGED << component, ext, fx, tm >>

NextReducers ==
  \/ DispatchCounter
  \/ DispatchTodo
  \/ ClockTick

SpecReducers == Init /\ [][NextReducers]_vars

\* ------------------------------------------------------------ Timer

\* start as it would be with the previous interval cleared first.
Started_ClearsPrevious(act, ref, id) == (act \ { ref }) \cup { id }

\* setInterval(...): a new interval runs beside the others; its id is new.
Started(act, ref, id) == act \cup { id }

\* clearInterval(id): null or the id of a stopped interval clears nothing.
ClearInterval(act, id) == act \ { id }

\* function start(): intervalRef.current = setInterval(...)
TimerStart ==
  /\ Len(ops) < MaxOps
  /\ active' = Started(active, intervalRef, nextId)
  /\ intervalRef' = nextId
  /\ nextId' = nextId + 1
  /\ ops' = Append(ops, "start")
  /\ UNCHANGED lastTick
  /\ UNCHANGED << component, ext, fx, rd >>

\* function stop(): clearInterval(intervalRef.current)
TimerStop ==
  /\ Len(ops) < MaxOps
  /\ active' = ClearInterval(active, intervalRef)
  /\ ops' = Append(ops, "stop")
  /\ UNCHANGED << intervalRef, nextId, lastTick >>
  /\ UNCHANGED << component, ext, fx, rd >>

\* A running interval fires: console.log("Tick").
TimerTick ==
  /\ \E i \in active : lastTick' = i
  /\ UNCHANGED << intervalRef, active, nextId, ops >>
  /\ UNCHANGED << component, ext, fx, rd >>

NextTimer ==
  \/ TimerStart
  \/ TimerStop
  \/ TimerTick

SpecTimer == Init /\ [][NextTimer]_vars

\* ------------------------------------------------------------ properties

\* A re-render flush has just completed (pre, runs and prevMemo are its own).
RenderDone == pc = "idle" /\ lastBatch # << >> /\ ~bailed

\* The setter call u passes the value its cell holds, by the cell's equality.
CellSame(u) ==
  /\ u.kind = "value"
  /\ CASE u.cell = "count" -> SameValue(u.v, count)
       [] u.cell = "items" -> SameRef(u.v, items)
       [] u.cell = "query" -> SameValue(u.v, query)

\* Every setter call of the batch passes the value its cell holds.
AllSame(q) == q # << >> /\ \A i \in 1..Len(q) : CellSame(q[i])

\* This step takes the flush decision of a batch (the batch is lastBatch').
DecisionStep ==
  \/ pc = "event" /\ flushes' = flushes + 1
  \/ pc = "idle" /\ flushes' = 1

C3_SameValueWriteIsNoOp ==
  [][ (DecisionStep /\ AllSame(lastBatch'))
        => /\ pc' \in { "idle", "event" }
           /\ bailed'
           /\ ~invoked'
           /\ UNCHANGED << count, items, query, memoDoubled, memoFiltered,
                           effectDeps, effectPending, dom, runs, hook >> ]_vars

C3_Witness ==
  /\ pc = "idle"
  /\ bailed
  /\ AllSame(lastBatch)
  /\ Len(lastBatch) = 2
  /\ \E i \in 1..Len(lastBatch) : lastBatch[i].cell = "items"
  /\ \E i \in 1..Len(lastBatch) : lastBatch[i].cell = "count"

\* C4 as stated: whenever the inputs of doubled are unchanged between two
\* consecutive re-renders, its callback is invoked exactly once in total over
\* the two (and the second leaves the value the first produced).
C4_ExactlyOnceOverTwoFlushes ==
  (RenderDone /\ prevRuns.render = 1 /\ SameValue(pre.count, count))
     => /\ prevRuns.doubled + runs.doubled = 1
        /\ memoDoubled.value = prevMemo.doubled

\* C4, amended: whenever the inputs of a useMemo value are unchanged between
\* two consecutive re-renders, the second re-render does not invoke its
\* callback (so it is invoked at most once over the two, once only if the
\* first invoked it) and leaves the value the first left.
C4_SecondFlushReusesCache ==
  /\ (RenderDone /\ prevRuns.render = 1 /\ SameValue(pre.count, count))
       => /\ runs.doubled = 0
          /\ prevRuns.doubled + runs.doubled <= 1
          /\ memoDoubled.value = prevMemo.doubled
  /\ (RenderDone /\ prevRuns.render = 1
        /\ SameRef(pre.items, items) /\ SameValue(pre.query, query))
       => /\ runs.filtered = 0
          /\ prevRuns.filtered + runs.filtered <= 1
          /\ memoFiltered.value = prevMemo.filtered

C4_Witness ==
  /\ RenderDone
  /\ prevRuns.render = 1
  /\ prevRuns.doubled = 1
  /\ SameValue(pre.count, count)
  /\ runs.doubled = 0
  /\ count > 0
  /\ memoDoubled.value = count * 2

Coherent ==
  /\ memoDoubled.value = count * 2
  /\ memoFiltered.value = Filter(items.val, query)

TwoCountCalls ==
  /\ Len(lastBatch) = 2
  /\ \A i \in 1..2 : lastBatch[i].cell = "count"

\* C21: the updates several setter calls queue within one event are applied
\* in call order at the next render: a functional updater receives the
\* result of the update queued before it (two prev => prev + 1 raise the
\* state by 2), a direct update writes its value whatever was queued before
\* it (two setCount(count + 1) raise it by 1), and between the calls the
\* state is still the old value.
C21_UpdatesAppliedInCallOrder ==
  /\ pc = "event" => count = pre.count
  /\ (RenderDone /\ TwoCountCalls) =>
       count = (IF lastBatch[2].kind = "value" THEN lastBatch[2].v
                ELSE IF lastBatch[1].kind = "value" THEN lastBatch[1].v + 1
                ELSE pre.count + 2)
  /\ (RenderDone /\ Len(lastBatch) = 1 /\ lastBatch[1].cell = "count") =>
       count = (IF lastBatch[1].kind = "value" THEN lastBatch[1].v
                ELSE pre.count + 1)

\* Two functional updaters in one event raised count by 2.
C21_Witness ==
  /\ RenderDone
  /\ TwoCountCalls
  /\ \A i \in 1..2 : lastBatch[i].kind = "fn"
  /\ count = pre.count + 2

\* Two setCount(count + 1) in one event raised count by 1.
C21_WitnessStale ==
  /\ RenderDone
  /\ TwoCountCalls
  /\ \A i \in 1..2 : lastBatch[i].kind = "value" /\ lastBatch[i].v = pre.count + 1
  /\ count = pre.count + 1

\* A log that starts with a run and alternates runs and cleanups.
Alternates(l) ==
  \A i \in 1..Len(l) : l[i] = (IF i % 2 = 1 THEN "run" ELSE "cleanup")

\* The runs of the fetch effect whose cleanup has not run.
OpenRuns == { i \in 1..Len(fetches) : ~fetches[i].ignore }

\* C22: for each effect of the component, the cleanup of its previous run is
\* executed before its next run and on unmount: runs and cleanups strictly
\* alternate over every sequence of mount, update and unmount, at most one
\* run is without a completed cleanup at any time (and only the latest
\* one), and after unmount none is.
C22_RunsAndCleanupsAlternate ==
  /\ \A e \in Effects : Alternates(elog[e])
  /\ Len(elog["fetch"]) = 2 * Len(fetches) - Cardinality(OpenRuns)
  /\ Cardinality(OpenRuns) <= 1
  /\ OpenRuns \subseteq { Len(fetches) }
  /\ fpc = "effect" => OpenRuns = {}
  /\ (interval = "running") = (Len(elog["interval"]) = 1)
  /\ fpc = "unmounted" =>
       /\ OpenRuns = {}
       /\ interval = "cleared"
       /\ \A e \in Effects : Len(elog[e]) % 2 = 0

\* Mount, two url changes and unmount: three runs of the fetch effect and
\* three cleanups, one run of the interval effect and one cleanup.
C22_Witness ==
  /\ fpc = "unmounted"
  /\ Len(elog["fetch"]) = 2 * MaxRuns
  /\ elog["interval"] = << "run", "cleanup" >>

\* C28 as stated: when url changes (or the component unmounts) while an
\* earlier fetch is in flight, its response never calls setData.
C28_EarlierResponseNeverSetsData == ~setLate

\* C28 amended: the response of a fetch never calls setData once the cleanup
\* of its effect run has run (which the url change or the unmount schedules
\* after paint), whatever order the responses arrive in; and once the
\* component has settled on a url and the response fetched for it has
\* arrived, data holds that response and not one for an older url.
C28_IgnoredResponseNeverSetsData ==
  /\ ~setIgnored
  /\ (fpc = "idle" /\ ~fetches[Len(fetches)].inflight) => data = Json(url)

\* The url changed twice with every fetch still in flight; the responses of
\* the two older fetches arrived after their cleanups and were dropped, and
\* data is the last url's response.
C28_Witness ==
  /\ fpc = "idle"
  /\ Len(fetches) = MaxRuns
  /\ \A i \in 1..Len(fetches) : ~fetches[i].inflight
  /\ data = Json(url)
  /\ dropped = MaxRuns - 1
  /\ ~setLate

\* C29: loading is set to true at the start of every effect run and never
\* to false: in every state from the first render on, also once a response
\* is stored in data, loading is true.
C29_LoadingStaysTrue == fpc # "new" => loading

\* The response is stored in data and loading is still true.
C29_Witness ==
  /\ fpc = "idle"
  /\ data = Json(url)
  /\ \A i \in 1..Len(fetches) : ~fetches[i].inflight
  /\ loading

\* No object or array that exists before the step is different after it.
NothingMutated ==
  /\ \A r \in DOMAIN cHeap : cHeap'[r] = cHeap[r]
  /\ \A r \in DOMAIN tHeap : tHeap'[r] = tHeap[r]
  /\ \A r \in DOMAIN tArrs : tArrs'[r] = tArrs[r]

\* C23: reducer and todoReducer return the state argument itself, unchanged,
\* for every action whose type is not one of their handled cases, and never
\* mutate the state object they are given: each handled case returns a new
\* object (and todoReducer a new todos array in it).
C23_ReducersReturnNewOrSame ==
  [][ rCalls' = rCalls + 1 =>
        /\ NothingMutated
        /\ rLast'.reducer = "reducer" =>
             IF rLast'.type \in { "increment", "decrement" }
             THEN /\ cState' \notin DOMAIN cHeap
                  /\ cState' \in DOMAIN cHeap'
                  /\ cHeap'[cState'].count =
                       cHeap[cState].count
                         + (IF rLast'.type = "increment" THEN 1 ELSE -1)
             ELSE cState' = cState /\ cHeap' = cHeap
        /\ rLast'.reducer = "todoReducer" =>
             IF rLast'.type \in { "add", "remove", "clear" }
             THEN /\ tState' \notin DOMAIN tHeap
                  /\ tState' \in DOMAIN tHeap'
                  /\ tHeap'[tState'].todos \notin DOMAIN tArrs
                  /\ tHeap'[tState'].todos \in DOMAIN tArrs'
             ELSE tState' = tState /\ tHeap' = tHeap /\ tArrs' = tArrs
    ]_vars

\* Both reducers have handled an action (an increment, an added todo; the
\* first state objects still hold what they held), and the last dispatch was
\* of a type its reducer does not handle.
C23_Witness ==
  /\ rCalls = MaxCalls
  /\ rLast.type = "reset"
  /\ Len(tHeap) = 2 /\ tArrs[tHeap[tState].todos] # << >>
  /\ Len(cHeap) = 2 /\ cHeap[cState].count = 1
  /\ cHeap[1].count = 0 /\ tArrs[1] = << >>

\* The intervals whose start was followed by another start before any stop:
\* their ids are no longer in intervalRef.current.
Overwritten ==
  { i \in 1..(Len(ops) - 1) : ops[i] = "start" /\ ops[i + 1] = "start" }

\* The id the i-th call, a start, got from setInterval.
IdOfStart(i) == Cardinality({ j \in 1..i : ops[j] = "start" })

\* C30: stop clears only the interval whose id is in intervalRef.current:
\* after start, start, stop the interval of the first start is still
\* running, and no later sequence of start and stop calls clears it (nor any
\* interval whose id was overwritten by the next start).
C30_OverwrittenIntervalRunsForever ==
  /\ []( /\ \A i \in Overwritten : IdOfStart(i) \in active
         /\ (Len(ops) >= 3 /\ SubSeq(ops, 1, 3) = << "start", "start", "stop" >>)
              => (1 \in active /\ 2 \notin active) )
  /\ [][ \A i \in active : (i # intervalRef => i \in active') ]_vars
  /\ [][ active \ active' \subseteq { intervalRef } ]_vars

\* start, start, stop and one more stop: the first interval has just ticked.
C30_Witness ==
  /\ ops = << "start", "start", "stop", "stop" >>
  /\ active = { 1 }
  /\ intervalRef = 2
  /\ lastTick = 1

\* A useMemo value is out of date: a dependency is not what it was computed
\* from; or the effect is still to run.
Dirty == DoubledDepsChanged \/ FilteredDepsChanged \/ effectPending

====
